---- MODULE Spec2Model ----
(***************************************************************************)
(* Model of datarobot_batch_scoring/reader.py: the chunking generator      *)
(* (iter_chunks, BatchGenerator.__iter__) and the producer process         *)
(* (Shovel._shove, Shovel.exit_fast) with its two channels, the shared     *)
(* status byte and the shared abort flag.                                  *)
(***************************************************************************)
EXTENDS Integers, Sequences, FiniteSets, TLC

\* ---- bounds of the model ------------------------------------------------
MaxRows  == 3      \* data rows in the input file
MaxChunk == 2      \* n_samples (rows per batch)
QueueCap == 1      \* capacity of the data channel

\* ---- inputs --------------------------------------------------------------
\* What the reader finds after the last well-formed data row: the end of the
\* file, a record the csv module rejects, or a failure of the stream itself.
Tails == {"EOF", "csv.Error", "IOError"}

\* A dataset: header = FALSE is a zero-byte file; rows are the data records
\* in file order (record i carries the value i); tail as above.
Datasets ==
    {[header |-> FALSE, rows |-> << >>, tail |-> "EOF"]} \cup
    {[header |-> TRUE, rows |-> [i \in 1..k |-> i], tail |-> t] :
        k \in 0..MaxRows, t \in Tails}

\* (offset, rowCount) pairs an already-processed set can usefully hold: the
\* row ranges that fit in a file of MaxRows rows
AllPairs ==
    {p \in (0..(MaxRows - 1)) \X (1..MaxChunk) : p[1] + p[2] <= MaxRows}

\* ---- values --------------------------------------------------------------
\* shovel_status bytes, as decode_reader_state names them
decode_reader_state ==
    [Initial |-> "-", Posting |-> "P", Aborted |-> "A",
     Done |-> "D", CSVError |-> "C", Error |-> "E"]

Terminal == {"A", "D", "C", "E"}

ProgressQueueMsg == {"SHOVEL_DONE", "SHOVEL_CSV_ERROR", "SHOVEL_ERROR"}

\* Batch(rows_read, n_rows, fieldnames, chunk, rty_cnt): fieldnames and
\* rty_cnt are the same for every batch of a run and are left out.
Batch(id, rows, data) == [id |-> id, rows |-> rows, data |-> data]

VARIABLES
    dataset,                    \* the input file
    chunksize,                  \* BatchGenerator.chunksize
    already_processed_batches,  \* BatchGenerator.already_processed_batches
    gen,                        \* the suspended frame of BatchGenerator.__iter__
    pc,                         \* where the producer process is in _shove
    exc,                        \* the exception in flight in _shove ("" = none)
    batch,                      \* _shove's local `batch`: << >> while unbound
    n,                          \* _shove's local `n`
    shovel_status,              \* Shovel.shovel_status.value
    abort_flag,                 \* Shovel.abort_flag.value
    queue,                      \* the data channel
    progress_queue,             \* the progress channel (every event put on it)
    pushed,                     \* history: every Batch put on the data channel
    sent,                       \* history: kind of every item put on either channel
    abort_seen_at,              \* history: n when the post-push check found the flag set, else -1
    abort_set_at,               \* history: batches pushed when the owner set the flag, else -1
    killed_from,                \* history: where _shove was when exit_fast ran ("" = never)
    torn_down,                  \* Shovel.__exit__ has run
    sigterm,                    \* the SIGTERM of p.terminate(): "none", "pending", "taken"
    fast_mode,                  \* BatchGenerator.fast_mode
    file,                       \* the input file as physical lines of characters
    reader                      \* the row source built from file

vars == <<dataset, chunksize, already_processed_batches, gen, pc, exc, batch,
          n, shovel_status, abort_flag, queue, progress_queue, pushed, sent,
          abort_seen_at, abort_set_at, killed_from, torn_down, sigterm,
          fast_mode, file, reader>>

inputs == <<dataset, chunksize, already_processed_batches>>

\* the row source and its file: untouched by the producer's steps, which see
\* the file through dataset
source == <<fast_mode, file, reader>>

\* the owner's teardown
teardown == <<torn_down, sigterm>>

NoBatch == << >>

\* ---- iter_chunks ---------------------------------------------------------
\* iter_chunks without its trailing `if chunk: yield chunk`
RECURSIVE iter_chunks_nopartial(_, _, _, _)
iter_chunks_nopartial(ds, chunk_size, pos, chunk) ==
    IF pos < Len(ds.rows)
    THEN LET c == Append(chunk, ds.rows[pos + 1]) IN
         IF Len(c) >= chunk_size
         THEN [out |-> "yield", chunk |-> c, pos |-> pos + 1]
         ELSE iter_chunks_nopartial(ds, chunk_size, pos + 1, c)
    ELSE IF ds.tail # "EOF"
    THEN [out |-> ds.tail, chunk |-> << >>, pos |-> pos]
    ELSE [out |-> "stop", chunk |-> << >>, pos |-> pos]

\* One resumption of iter_chunks: read rows from reader position pos into
\* chunk until it is full, the reader ends, or the reader raises.
RECURSIVE iter_chunks(_, _, _, _)
iter_chunks(ds, chunk_size, pos, chunk) ==
    IF pos < Len(ds.rows)
    THEN LET c == Append(chunk, ds.rows[pos + 1]) IN
         IF Len(c) >= chunk_size
         THEN [out |-> "yield", chunk |-> c, pos |-> pos + 1]
         ELSE iter_chunks(ds, chunk_size, pos + 1, c)
    ELSE IF ds.tail # "EOF"
    THEN [out |-> ds.tail, chunk |-> << >>, pos |-> pos]
    ELSE IF chunk # << >>
    THEN [out |-> "yield", chunk |-> chunk, pos |-> pos]
    ELSE [out |-> "stop", chunk |-> << >>, pos |-> pos]

\* ---- BatchGenerator.__iter__ ---------------------------------------------
NewGen ==
    [state |-> "new", rows_read |-> 0, n_rows |-> 0, pos |-> 0,
     has_content |-> FALSE, error |-> ""]

\* __iter__ with a skipped batch not counted into rows_read
RECURSIVE BatchGenerator_loop_skipstill(_, _, _, _)
BatchGenerator_loop_skipstill(ds, K, P, g) ==
    LET c == iter_chunks(ds, K, g.pos, << >>) IN
    IF c.out = "yield"
    THEN LET n_rows == Len(c.chunk) IN
         IF <<g.rows_read, n_rows>> \notin P
         THEN [gen |-> [g EXCEPT !.state = "suspended", !.n_rows = n_rows,
                                 !.pos = c.pos, !.has_content = TRUE],
               batch |-> <<Batch(g.rows_read, n_rows, c.chunk)>>]
         ELSE BatchGenerator_loop_skipstill(ds, K, P,
                 [g EXCEPT !.n_rows = n_rows,
                           !.pos = c.pos, !.has_content = TRUE])
    ELSE IF c.out = "stop"
    THEN IF ~g.has_content
         THEN [gen |-> [g EXCEPT !.state = "raised",
                                 !.error = "ValueError: empty"],
               batch |-> NoBatch]
         ELSE [gen |-> [g EXCEPT !.state = "returned"], batch |-> NoBatch]
    ELSE [gen |-> [g EXCEPT !.state = "raised", !.error = c.out],
          batch |-> NoBatch]

\* __iter__ with has_content set only when a batch is yielded
RECURSIVE BatchGenerator_loop_contentonyield(_, _, _, _)
BatchGenerator_loop_contentonyield(ds, K, P, g) ==
    LET c == iter_chunks(ds, K, g.pos, << >>) IN
    IF c.out = "yield"
    THEN LET n_rows == Len(c.chunk) IN
         IF <<g.rows_read, n_rows>> \notin P
         THEN [gen |-> [g EXCEPT !.state = "suspended", !.n_rows = n_rows,
                                 !.pos = c.pos, !.has_content = TRUE],
               batch |-> <<Batch(g.rows_read, n_rows, c.chunk)>>]
         ELSE BatchGenerator_loop_contentonyield(ds, K, P,
                 [g EXCEPT !.rows_read = @ + n_rows, !.n_rows = n_rows,
                           !.pos = c.pos])
    ELSE IF c.out = "stop"
    THEN IF ~g.has_content
         THEN [gen |-> [g EXCEPT !.state = "raised",
                                 !.error = "ValueError: empty"],
               batch |-> NoBatch]
         ELSE [gen |-> [g EXCEPT !.state = "returned"], batch |-> NoBatch]
    ELSE [gen |-> [g EXCEPT !.state = "raised", !.error = c.out],
          batch |-> NoBatch]

\* The for loop of __iter__, run from frame g until it yields, returns or
\* raises.  The result is the frame it stops in and the batch it yields.
RECURSIVE BatchGenerator_loop(_, _, _, _)
BatchGenerator_loop(ds, K, P, g) ==
    LET c == iter_chunks(ds, K, g.pos, << >>) IN
    IF c.out = "yield"
    THEN LET n_rows == Len(c.chunk) IN
         IF <<g.rows_read, n_rows>> \notin P
         THEN [gen |-> [g EXCEPT !.state = "suspended", !.n_rows = n_rows,
                                 !.pos = c.pos, !.has_content = TRUE],
               batch |-> <<Batch(g.rows_read, n_rows, c.chunk)>>]
         ELSE BatchGenerator_loop(ds, K, P,
                 [g EXCEPT !.rows_read = @ + n_rows, !.n_rows = n_rows,
                           !.pos = c.pos, !.has_content = TRUE])
    ELSE IF c.out = "stop"
    THEN IF ~g.has_content
         THEN [gen |-> [g EXCEPT !.state = "raised",
                                 !.error = "ValueError: empty"],
               batch |-> NoBatch]
         ELSE [gen |-> [g EXCEPT !.state = "returned"], batch |-> NoBatch]
    ELSE [gen |-> [g EXCEPT !.state = "raised", !.error = c.out],
          batch |-> NoBatch]

\* next() with `rows_read += n_rows` left out after a yield
BatchGenerator_iter_noadvance(ds, K, P, g, pep479) ==
    IF g.state = "new"
    THEN IF ~ds.header
         THEN IF pep479
              THEN [gen |-> [g EXCEPT !.state = "raised",
                                      !.error = "RuntimeError: StopIteration"],
                    batch |-> NoBatch]
              ELSE [gen |-> [g EXCEPT !.state = "returned"], batch |-> NoBatch]
         ELSE BatchGenerator_loop(ds, K, P, g)
    ELSE BatchGenerator_loop(ds, K, P, g)

\* next() on the generator.  A new generator first builds the reader, whose
\* constructor reads the header with next(reader): on a zero-byte file that
\* raises StopIteration inside the generator, which the interpreter turns
\* into RuntimeError (pep479) or takes as the end of the iteration.
BatchGenerator_iter(ds, K, P, g, pep479) ==
    IF g.state = "new"
    THEN IF ~ds.header
         THEN IF pep479
              THEN [gen |-> [g EXCEPT !.state = "raised",
                                      !.error = "RuntimeError: StopIteration"],
                    batch |-> NoBatch]
              ELSE [gen |-> [g EXCEPT !.state = "returned"], batch |-> NoBatch]
         ELSE BatchGenerator_loop(ds, K, P, g)
    ELSE BatchGenerator_loop(ds, K, P,
             [g EXCEPT !.rows_read = @ + g.n_rows])

\* no row source has been built
NoReader ==
    [state |-> "none", fieldnames |-> << >>, rows |-> << >>, line_num |-> 0]

\* ---- the producer process: Shovel._shove ---------------------------------
\* the producer not yet started, the owner not yet torn down
ShovelIdle ==
    /\ gen = NewGen
    /\ pc = "start"
    /\ exc = ""
    /\ batch = NoBatch
    /\ n = 0
    /\ shovel_status = decode_reader_state.Initial
    /\ abort_flag = FALSE
    /\ queue = << >>
    /\ progress_queue = << >>
    /\ pushed = << >>
    /\ sent = << >>
    /\ abort_seen_at = -1
    /\ abort_set_at = -1
    /\ killed_from = ""
    /\ torn_down = FALSE
    /\ sigterm = "none"

NoSource ==
    /\ fast_mode = FALSE
    /\ file = << >>
    /\ reader = NoReader

Init ==
    /\ dataset \in Datasets
    /\ chunksize \in 1..MaxChunk
    /\ already_processed_batches \in SUBSET AllPairs
    /\ ShovelIdle
    /\ NoSource

\* signal.signal(...) twice, then BatchGenerator(*args) and n = 0
shove_start ==
    /\ pc = "start"
    /\ pc' = "iter"
    /\ n' = 0
    /\ gen' = NewGen
    /\ UNCHANGED <<inputs, source, teardown, abort_set_at, killed_from,
                   exc, batch, shovel_status, abort_flag, queue,
                   progress_queue, pushed, sent, abort_seen_at>>

\* `for batch in batch_generator:` and, when a batch comes, the status write
\* that precedes queue.put
shove_next ==
    /\ pc = "iter"
    /\ \E pep479 \in BOOLEAN :
         LET r == BatchGenerator_iter(dataset, chunksize,
                                      already_processed_batches, gen, pep479)
         IN /\ gen' = r.gen
            /\ IF r.gen.state = "suspended"
               THEN /\ batch' = r.batch
                    /\ shovel_status' = decode_reader_state.Posting
                    /\ pc' = "put"
                    /\ exc' = exc
               ELSE IF r.gen.state = "returned"
               THEN /\ pc' = "after_loop"
                    /\ UNCHANGED <<batch, shovel_status, exc>>
               ELSE /\ pc' = "except"
                    /\ exc' = r.gen.error
                    /\ UNCHANGED <<batch, shovel_status>>
    /\ UNCHANGED <<inputs, source, teardown, abort_set_at, killed_from,
                   n, abort_flag, queue, progress_queue, pushed, sent,
                   abort_seen_at>>

\* queue.put(batch) with the count left where it was
shove_put_nocount ==
    /\ pc = "put"
    /\ Len(queue) < QueueCap
    /\ queue' = Append(queue, batch[1])
    /\ pushed' = Append(pushed, batch[1])
    /\ sent' = Append(sent, "Batch")
    /\ n' = n
    /\ pc' = "check"
    /\ UNCHANGED <<inputs, source, teardown, abort_set_at, killed_from,
                   gen, exc, batch, shovel_status, abort_flag,
                   progress_queue, abort_seen_at>>

\* queue.put(batch) that does not wait for room on the channel
shove_put_nowait ==
    /\ pc = "put"
    /\ queue' = Append(queue, batch[1])
    /\ pushed' = Append(pushed, batch[1])
    /\ sent' = Append(sent, "Batch")
    /\ n' = n + 1
    /\ pc' = "check"
    /\ UNCHANGED <<inputs, source, teardown, abort_set_at, killed_from,
                   gen, exc, batch, shovel_status, abort_flag,
                   progress_queue, abort_seen_at>>

\* queue.put(batch) blocks while the channel is full; n += 1 follows it
shove_put ==
    /\ pc = "put"
    /\ Len(queue) < QueueCap
    /\ queue' = Append(queue, batch[1])
    /\ pushed' = Append(pushed, batch[1])
    /\ sent' = Append(sent, "Batch")
    /\ n' = n + 1
    /\ pc' = "check"
    /\ UNCHANGED <<inputs, source, teardown, abort_set_at, killed_from,
                   gen, exc, batch, shovel_status, abort_flag,
                   progress_queue, abort_seen_at>>

\* the abort flag polled also while queue.put is still waiting
shove_check_abort_whileblocked ==
    /\ pc \in {"check", "put"}
    /\ IF abort_flag
       THEN /\ shovel_status' = decode_reader_state.Aborted
            /\ abort_seen_at' = n
            /\ pc' = "after_loop"
       ELSE /\ pc' = IF pc = "check" THEN "iter" ELSE pc
            /\ UNCHANGED <<shovel_status, abort_seen_at>>
    /\ UNCHANGED <<inputs, source, teardown, abort_set_at, killed_from,
                   gen, exc, batch, n, abort_flag, queue, progress_queue,
                   pushed, sent>>

\* the post-push check looking at the flag after every second push only
shove_check_abort_everyother ==
    /\ pc = "check"
    /\ IF abort_flag /\ n % 2 = 0
       THEN /\ shovel_status' = decode_reader_state.Aborted
            /\ abort_seen_at' = n
            /\ pc' = "after_loop"
       ELSE /\ pc' = "iter"
            /\ UNCHANGED <<shovel_status, abort_seen_at>>
    /\ UNCHANGED <<inputs, source, teardown, abort_set_at, killed_from,
                   gen, exc, batch, n, abort_flag, queue, progress_queue,
                   pushed, sent>>

\* the post-push check with the break left out: the loop goes on
shove_check_abort_nobreak ==
    /\ pc = "check"
    /\ IF abort_flag
       THEN /\ shovel_status' = decode_reader_state.Aborted
            /\ abort_seen_at' = n
       ELSE UNCHANGED <<shovel_status, abort_seen_at>>
    /\ pc' = "iter"
    /\ UNCHANGED <<inputs, source, teardown, abort_set_at, killed_from,
                   gen, exc, batch, n, abort_flag, queue,
                   progress_queue, pushed, sent>>

\* if self.abort_flag.value: status = b"A"; break
shove_check_abort ==
    /\ pc = "check"
    /\ IF abort_flag
       THEN /\ shovel_status' = decode_reader_state.Aborted
            /\ abort_seen_at' = n
            /\ pc' = "after_loop"
       ELSE /\ pc' = "iter"
            /\ UNCHANGED <<shovel_status, abort_seen_at>>
    /\ UNCHANGED <<inputs, source, teardown, abort_set_at, killed_from,
                   gen, exc, batch, n, abort_flag, queue,
                   progress_queue, pushed, sent>>

\* the statement after the loop, reached by exhaustion and by break alike
shove_status_done ==
    /\ pc = "after_loop"
    /\ shovel_status' = decode_reader_state.Done
    /\ pc' = "put_done"
    /\ UNCHANGED <<inputs, source, teardown, abort_set_at, killed_from,
                   gen, exc, batch, n, abort_flag, queue,
                   progress_queue, pushed, sent, abort_seen_at>>

Event(kind, b, error, produced) ==
    [kind |-> kind, batch |-> b, error |-> error, produced |-> produced]

shove_put_done ==
    /\ pc = "put_done"
    /\ progress_queue' = Append(progress_queue,
                                Event("SHOVEL_DONE", NoBatch, "", n))
    /\ sent' = Append(sent, "SHOVEL_DONE")
    /\ pc' = "done"
    /\ UNCHANGED <<inputs, source, teardown, abort_set_at, killed_from,
                   gen, exc, batch, n, shovel_status, abort_flag,
                   queue, pushed, abort_seen_at>>

\* Batch._replace with the data cleared, as the event is meant to carry it
Batch_replace_data(b) == [b EXCEPT !.data = << >>]

\* the csv.Error handler writing the generic error status
shove_except_csv_wrongstatus ==
    /\ pc = "except"
    /\ exc = "csv.Error"
    /\ shovel_status' = decode_reader_state.Error
    /\ pc' = "put_csv_error"
    /\ UNCHANGED <<inputs, source, teardown, abort_set_at, killed_from,
                   gen, exc, batch, n, abort_flag, queue,
                   progress_queue, pushed, sent, abort_seen_at>>

\* except csv.Error as e: the status write
shove_except_csv ==
    /\ pc = "except"
    /\ exc = "csv.Error"
    /\ shovel_status' = decode_reader_state.CSVError
    /\ pc' = "put_csv_error"
    /\ UNCHANGED <<inputs, source, teardown, abort_set_at, killed_from,
                   gen, exc, batch, n, abort_flag, queue,
                   progress_queue, pushed, sent, abort_seen_at>>

\* the put of the handler: evaluating `batch` raises UnboundLocalError when
\* no batch was ever bound, and then nothing is put
shove_put_csv_error ==
    /\ pc = "put_csv_error"
    /\ IF batch = NoBatch
       THEN /\ exc' = "UnboundLocalError"
            /\ UNCHANGED <<progress_queue, sent>>
       ELSE /\ progress_queue' = Append(progress_queue,
                   Event("SHOVEL_CSV_ERROR", <<Batch_replace_data(batch[1])>>,
                         exc, n))
            /\ sent' = Append(sent, "SHOVEL_CSV_ERROR")
            /\ exc' = exc
    /\ pc' = "raised"
    /\ UNCHANGED <<inputs, source, teardown, abort_set_at, killed_from,
                   gen, batch, n, shovel_status, abort_flag, queue,
                   pushed, abort_seen_at>>

\* except Exception as e: the status write
shove_except_exception ==
    /\ pc = "except"
    /\ exc # "csv.Error"
    /\ shovel_status' = decode_reader_state.Error
    /\ pc' = "put_error"
    /\ UNCHANGED <<inputs, source, teardown, abort_set_at, killed_from,
                   gen, exc, batch, n, abort_flag, queue,
                   progress_queue, pushed, sent, abort_seen_at>>

shove_put_error ==
    /\ pc = "put_error"
    /\ IF batch = NoBatch
       THEN /\ exc' = "UnboundLocalError"
            /\ UNCHANGED <<progress_queue, sent>>
       ELSE /\ progress_queue' = Append(progress_queue,
                   Event("SHOVEL_ERROR", <<Batch_replace_data(batch[1])>>,
                         exc, n))
            /\ sent' = Append(sent, "SHOVEL_ERROR")
            /\ exc' = exc
    /\ pc' = "raised"
    /\ UNCHANGED <<inputs, source, teardown, abort_set_at, killed_from,
                   gen, batch, n, shovel_status, abort_flag, queue,
                   pushed, abort_seen_at>>

\* the process is running with the handlers of _shove installed
Alive == pc \notin {"start", "done", "raised", "killed"}

\* the handler with the os._exit(1) left out: the process goes on
exit_fast_noexit ==
    /\ Alive
    /\ shovel_status' = decode_reader_state.Aborted
    /\ killed_from' = pc
    /\ UNCHANGED <<inputs, source, teardown, abort_set_at,
                   gen, pc, exc, batch, n, abort_flag, queue,
                   progress_queue, pushed, sent, abort_seen_at>>

\* SIGINT or SIGTERM delivered: status = b"A"; os._exit(1)
exit_fast ==
    /\ Alive
    /\ shovel_status' = decode_reader_state.Aborted
    /\ pc' = "killed"
    /\ killed_from' = pc
    /\ UNCHANGED <<inputs, source, teardown, abort_set_at,
                   gen, exc, batch, n, abort_flag, queue,
                   progress_queue, pushed, sent, abort_seen_at>>

\* ---- the owning process --------------------------------------------------
\* the owner requests a cooperative abort
owner_set_abort ==
    /\ ~abort_flag
    /\ abort_flag' = TRUE
    /\ abort_set_at' = Len(pushed)
    /\ UNCHANGED <<inputs, source, teardown, killed_from,
                   gen, pc, exc, batch, n, shovel_status, queue,
                   progress_queue, pushed, sent, abort_seen_at>>

\* the owner (or a worker) takes the next Batch off the data channel
owner_get ==
    /\ queue # << >>
    /\ queue' = Tail(queue)
    /\ UNCHANGED <<inputs, source, teardown, abort_set_at, killed_from,
                   gen, pc, exc, batch, n, shovel_status, abort_flag,
                   progress_queue, pushed, sent, abort_seen_at>>

Next ==
    \/ shove_start
    \/ shove_next
    \/ shove_put
    \/ shove_check_abort
    \/ shove_status_done
    \/ shove_put_done
    \/ shove_except_csv
    \/ shove_put_csv_error
    \/ shove_except_exception
    \/ shove_put_error
    \/ exit_fast
    \/ owner_set_abort
    \/ owner_get

Spec == Init /\ [][Next]_vars

\* ---- the run as the claims see it ----------------------------------------
\* _shove has returned or raised (the process was not killed)
Finished == pc \in {"done", "raised"}

AbortSeen == abort_seen_at >= 0

\* a step that changes the status byte follows the documented state machine
C1_StatusStep ==
    shovel_status' # shovel_status =>
        \/ shovel_status = "-" /\ shovel_status' = "P"
        \/ shovel_status = "P" /\ shovel_status' \in Terminal

\* C1: the status only moves Initial -> PostingToQueue -> one terminal value:
\* every write that changes it is either Initial to PostingToQueue or
\* PostingToQueue to a terminal value, and a terminal value is never replaced.
C1_StatusProtocol == [][C1_StatusStep]_vars

\* C2: a run that has ended has put exactly one terminal event on the progress
\* channel, and an event is the last item sent on either channel.
C2_OneTerminalEventLast ==
    /\ Finished => Len(progress_queue) = 1
    /\ \A i \in 1..Len(sent) : sent[i] \in ProgressQueueMsg => i = Len(sent)

\* C3: a run in which the post-push check found the abort flag set ends with
\* status Aborted.
C3_AbortEndsAborted ==
    (Finished /\ AbortSeen) => shovel_status = decode_reader_state.Aborted

\* C4: a run in which the post-push check found the abort flag set still puts
\* one terminal event, and that event is not SHOVEL_DONE.
C4_AbortEventNotDone ==
    (Finished /\ AbortSeen) =>
        /\ Len(progress_queue) = 1
        /\ progress_queue[1].kind # "SHOVEL_DONE"

IsSuffix(s, t) ==
    /\ Len(s) <= Len(t)
    /\ s = SubSeq(t, Len(t) - Len(s) + 1, Len(t))

\* C5: once the post-push check after the k-th push has found the abort flag
\* set, exactly k batches have been pushed and no more follow; what is on the
\* data channel is the tail of what was pushed, unchanged.
C5_NoPushAfterAbortSeen ==
    /\ IsSuffix(queue, pushed)
    /\ AbortSeen => (Len(pushed) = abort_seen_at /\ n = abort_seen_at)

\* C5 witness: the flag was seen after 2 pushes of a file holding 3 batches,
\* and the run has ended with the third never pushed.
C5_Witness ==
    /\ pc = "done"
    /\ abort_seen_at = 2
    /\ Len(dataset.rows) = 3 /\ chunksize = 1 /\ dataset.tail = "EOF"
    /\ already_processed_batches = {}
    /\ Len(pushed) = 2

\* ---- the generator as a function of its inputs ---------------------------
\* every Batch the generator yields when it is iterated to its end
RECURSIVE Drain(_, _, _, _, _)
Drain(ds, K, P, g, acc) ==
    LET r == BatchGenerator_iter(ds, K, P, g, TRUE) IN
    IF r.gen.state = "suspended"
    THEN Drain(ds, K, P, r.gen, acc \o r.batch)
    ELSE acc

Emitted(ds, K, P) == Drain(ds, K, P, NewGen, << >>)

Key(b) == <<b.id, b.rows>>

NotIn(P, seq) == SelectSeq(seq, LAMBDA b : Key(b) \notin P)

RECURSIVE Concat(_)
Concat(seq) == IF seq = << >> THEN << >> ELSE Head(seq).data \o Concat(Tail(seq))

RECURSIVE SumRows(_)
SumRows(seq) == IF seq = << >> THEN 0 ELSE Head(seq).rows + SumRows(Tail(seq))

IsPrefix(s, t) == Len(s) <= Len(t) /\ s = SubSeq(t, 1, Len(s))

\* the generator was iterated to its end (no abort cut the loop short)
Exhausted == gen.state \in {"returned", "raised"}

\* C6: the batches pushed on the data channel are in strictly increasing
\* offset order.
C6_OffsetsIncrease ==
    \A i, j \in 1..Len(pushed) : i < j => pushed[i].id < pushed[j].id

\* C6 witness: three row groups, the middle one already processed: offsets 0
\* and 2 were pushed in that order.
C6_Witness ==
    /\ <<1, 1>> \in already_processed_batches
    /\ Len(pushed) = 2
    /\ pushed[1].id = 0 /\ pushed[2].id = 2

\* C7: with nothing already processed, a file of N >= 1 rows read to its end
\* gives batches whose rows concatenate to the file's rows, whose offsets are
\* the row counts before them, and whose row counts are K except the last,
\* which is N mod K (K when that is 0).
C7_Partition ==
    LET N == Len(dataset.rows)
        K == chunksize
        m == Len(pushed)
    IN (/\ already_processed_batches = {}
        /\ dataset.header /\ N >= 1 /\ dataset.tail = "EOF"
        /\ gen.state = "returned")
       =>
       /\ Concat(pushed) = dataset.rows
       /\ m >= 1
       /\ \A i \in 1..m :
            /\ pushed[i].id = SumRows(SubSeq(pushed, 1, i - 1))
            /\ pushed[i].rows = Len(pushed[i].data)
            /\ i < m => pushed[i].rows = K
       /\ pushed[m].rows = IF N % K = 0 THEN K ELSE N % K

C7_Witness ==
    /\ already_processed_batches = {}
    /\ Len(dataset.rows) = 3 /\ chunksize = 2 /\ dataset.tail = "EOF"
    /\ gen.state = "returned"
    /\ Len(pushed) = 2 /\ pushed[2].rows = 1

\* C8: whatever the already-processed set P, no pushed batch has its pair in
\* P, and the batches pushed are those of the run with P empty with exactly
\* the batches in P removed (same offset, row count and rows).
C8_SkipOnlyProcessed ==
    LET base == NotIn(already_processed_batches,
                      Emitted(dataset, chunksize, {}))
    IN /\ \A i \in 1..Len(pushed) :
            Key(pushed[i]) \notin already_processed_batches
       /\ IsPrefix(pushed, base)
       /\ Exhausted => pushed = base

C8_Witness ==
    /\ Exhausted
    /\ Len(pushed) = 1 /\ pushed[1].id = 2
    /\ Len(Emitted(dataset, chunksize, {})) = 3

\* the dataset yields no row group: a zero-byte file or a header-only file
ZeroGroups == dataset.rows = << >> /\ dataset.tail = "EOF"

\* C9: a dataset with no row group (a zero-byte file or a header-only file)
\* makes the generator fail with the "empty input" error, and no batch comes.
C9_EmptyInputError ==
    ZeroGroups =>
        /\ pushed = << >>
        /\ gen.state # "suspended"
        /\ gen.state # "new" =>
               (gen.state = "raised" /\ gen.error = "ValueError: empty")

\* a non-empty file whose every row group is in the already-processed set
AllProcessed ==
    /\ dataset.header /\ dataset.rows # << >> /\ dataset.tail = "EOF"
    /\ \A i \in 1..Len(Emitted(dataset, chunksize, {})) :
          Key(Emitted(dataset, chunksize, {})[i]) \in already_processed_batches

\* C10: when every row group of a non-empty file is already processed, the
\* generator ends normally without a batch, and the run pushes nothing and
\* ends with status Done and one SHOVEL_DONE event.
C10_AllProcessedEndsDone ==
    AllProcessed =>
        /\ pushed = << >> /\ queue = << >>
        /\ gen.state \in {"new", "returned"}
        /\ exc = "" /\ pc \notin {"except", "put_error", "put_csv_error", "raised"}
        /\ pc = "done" =>
              /\ shovel_status = decode_reader_state.Done
              /\ progress_queue = <<Event("SHOVEL_DONE", NoBatch, "", 0)>>

C10_Witness ==
    /\ AllProcessed
    /\ Len(dataset.rows) = 3
    /\ pc = "done"

\* ---- failures --------------------------------------------------------------
ErrorEvents == {"SHOVEL_CSV_ERROR", "SHOVEL_ERROR"}

\* C11: a failure raised while iterating the generator has been turned into
\* one error event on the progress channel by the time it leaves _shove.
C11_FailureBecomesEvent ==
    pc = "raised" =>
        /\ Len(progress_queue) = 1
        /\ progress_queue[1].kind \in ErrorEvents

\* what the handlers must leave for a failure of the generator
Classified(status, kind) ==
    /\ shovel_status = status
    /\ \A i \in 1..Len(progress_queue) : progress_queue[i].kind = kind

\* C12: a csv.Error leaves status CSVError and only a SHOVEL_CSV_ERROR event,
\* any other failure leaves status Error and only a SHOVEL_ERROR event, and
\* a failed run never ends with status Done.
C12_FailureClassified ==
    (gen.state = "raised" /\ pc \in {"put_csv_error", "put_error", "raised"})
    =>
    IF gen.error = "csv.Error"
    THEN Classified(decode_reader_state.CSVError, "SHOVEL_CSV_ERROR")
    ELSE Classified(decode_reader_state.Error, "SHOVEL_ERROR")

\* C12 witness: a csv.Error after a batch was pushed, its event on the channel
C12_Witness ==
    /\ pc = "raised"
    /\ gen.error = "csv.Error"
    /\ Len(pushed) >= 1
    /\ Len(progress_queue) = 1
    /\ progress_queue[1].kind = "SHOVEL_CSV_ERROR"

\* ---- the documented scenario: 5 data rows, batch size 2 -------------------
ScenarioRows == 5

ScenarioPairs == {<<0, 2>>, <<2, 2>>}

InitScenario ==
    /\ dataset \in {[header |-> TRUE, rows |-> [i \in 1..k |-> i], tail |-> t] :
                      k \in 0..ScenarioRows, t \in Tails}
    /\ chunksize \in 1..MaxChunk
    /\ already_processed_batches \in SUBSET ScenarioPairs
    /\ ShovelIdle
    /\ NoSource

SpecScenario == InitScenario /\ [][Next]_vars

RECURSIVE Keys(_)
Keys(seq) == IF seq = << >> THEN << >> ELSE <<Key(Head(seq))>> \o Keys(Tail(seq))

\* C13: every event on the progress channel reports as produced the number of
\* batches pushed on the data channel; skipped batches are not counted.
C13_ProducedIsPushed ==
    \A i \in 1..Len(progress_queue) :
        progress_queue[i].produced = Len(pushed)

\* C13 witness: 5 rows in batches of 2, nothing skipped: (0,2), (2,2), (4,1)
\* pushed in that order and SHOVEL_DONE reports produced = 3.
C13_Witness ==
    /\ pc = "done"
    /\ Len(dataset.rows) = 5 /\ chunksize = 2
    /\ Keys(pushed) = << <<0, 2>>, <<2, 2>>, <<4, 1>> >>
    /\ progress_queue = <<Event("SHOVEL_DONE", NoBatch, "", 3)>>

\* ---- the row sources: CSVReader, FastReader, SlowReader -------------------
MaxLines == 4      \* physical lines in the input file

\* The records FastReader._check_for_multiline_input peeks at.  The source's
\* default is 100; the model scales it down to files of a few lines, and the
\* properties are stated in terms of peek_size, whatever its value.
peek_size == 2

\* The text of a physical line, without its terminator: a blank line, plain
\* fields, a padded field, and lines that open or close a quoted field.
LineTexts ==
    { << >>,
      <<"a">>,
      <<"a", ",", "b">>,
      <<" ", "a">>,
      <<"\"">>,
      <<"\"", "a">>,
      <<"a", "\"">>,
      <<"\"", "a", "\"">> }

RECURSIVE SeqsUpTo(_, _)
SeqsUpTo(S, k) ==
    IF k = 0 THEN {<< >>}
    ELSE LET shorter == SeqsUpTo(S, k - 1) IN
         shorter \cup {Append(q, x) : q \in shorter, x \in S}

Files == SeqsUpTo(LineTexts, MaxLines)

\* the dialect held in `dataset_dialect`: excel (doublequote, not strict)
delimiter == ","
quotechar == "\""
NL == "\n"

\* the line as the decoded stream hands it to the parser
WithNL(line) == Append(line, NL)

\* csv.reader's parser on one character; EOL is the end-of-line marker the
\* reader feeds after the characters of each line.  p = [state, fields, field].
SaveField(p) == [p EXCEPT !.fields = Append(@, p.field), !.field = << >>]

AddChar(p, c) == [p EXCEPT !.field = Append(@, c)]

parse_process_char(p, c) ==
    LET start_field(q) ==
            IF c \in {NL, "EOL"}
            THEN [SaveField(q) EXCEPT
                    !.state = IF c = "EOL" THEN "START_RECORD" ELSE "EAT_CRNL"]
            ELSE IF c = quotechar THEN [q EXCEPT !.state = "IN_QUOTED_FIELD"]
            ELSE IF c = delimiter THEN SaveField(q)
            ELSE [AddChar(q, c) EXCEPT !.state = "IN_FIELD"]
    IN
    CASE p.state = "START_RECORD" ->
           IF c = "EOL" THEN p
           ELSE IF c = NL THEN [p EXCEPT !.state = "EAT_CRNL"]
           ELSE start_field([p EXCEPT !.state = "START_FIELD"])
      [] p.state = "START_FIELD" -> start_field(p)
      [] p.state = "IN_FIELD" ->
           IF c \in {NL, "EOL"}
           THEN [SaveField(p) EXCEPT
                   !.state = IF c = "EOL" THEN "START_RECORD" ELSE "EAT_CRNL"]
           ELSE IF c = delimiter
           THEN [SaveField(p) EXCEPT !.state = "START_FIELD"]
           ELSE AddChar(p, c)
      [] p.state = "IN_QUOTED_FIELD" ->
           IF c = "EOL" THEN p
           ELSE IF c = quotechar
           THEN [p EXCEPT !.state = "QUOTE_IN_QUOTED_FIELD"]
           ELSE AddChar(p, c)
      [] p.state = "QUOTE_IN_QUOTED_FIELD" ->
           IF c = quotechar
           THEN [AddChar(p, c) EXCEPT !.state = "IN_QUOTED_FIELD"]
           ELSE IF c = delimiter
           THEN [SaveField(p) EXCEPT !.state = "START_FIELD"]
           ELSE IF c \in {NL, "EOL"}
           THEN [SaveField(p) EXCEPT
                   !.state = IF c = "EOL" THEN "START_RECORD" ELSE "EAT_CRNL"]
           ELSE [AddChar(p, c) EXCEPT !.state = "IN_FIELD"]
      [] p.state = "EAT_CRNL" ->
           IF c = "EOL" THEN [p EXCEPT !.state = "START_RECORD"] ELSE p

RECURSIVE parse_line(_, _)
parse_line(p, chars) ==
    IF chars = << >> THEN parse_process_char(p, "EOL")
    ELSE parse_line(parse_process_char(p, Head(chars)), Tail(chars))

\* next(reader) on a csv.reader that has consumed line_num lines of f: the
\* record, or the end of the input
RECURSIVE Reader_iternext(_, _, _)
Reader_iternext(f, line_num, p) ==
    IF line_num >= Len(f)
    THEN IF p.field # << >> \/ p.state = "IN_QUOTED_FIELD"
         THEN [out |-> "row", row |-> SaveField(p).fields, line_num |-> line_num]
         ELSE [out |-> "StopIteration", row |-> << >>, line_num |-> line_num]
    ELSE LET q == parse_line(p, WithNL(f[line_num + 1])) IN
         IF q.state = "START_RECORD"
         THEN [out |-> "row", row |-> q.fields, line_num |-> line_num + 1]
         ELSE Reader_iternext(f, line_num + 1, q)

parse_reset == [state |-> "START_RECORD", fields |-> << >>, field |-> << >>]

csv_reader_next(f, line_num) == Reader_iternext(f, line_num, parse_reset)

\* every record csv.reader yields from line_num on, each with the number of
\* the last physical line it took
RECURSIVE Records(_, _)
Records(f, line_num) ==
    LET r == csv_reader_next(f, line_num) IN
    IF r.out = "StopIteration" THEN << >>
    ELSE <<[row |-> r.row, last |-> r.line_num]>> \o Records(f, r.line_num)

\* str.strip() of a field
Whitespace == {" ", NL}

RECURSIVE lstrip(_)
lstrip(c) == IF c # << >> /\ Head(c) \in Whitespace THEN lstrip(Tail(c)) ELSE c

RECURSIVE rstrip(_)
rstrip(c) ==
    IF c # << >> /\ c[Len(c)] \in Whitespace
    THEN rstrip(SubSeq(c, 1, Len(c) - 1)) ELSE c

strip(c) == rstrip(lstrip(c))

fieldnames_of(header) == [i \in 1..Len(header) |-> strip(header[i])]

Min(a, b) == IF a <= b THEN a ELSE b

\* the check with max taken for min
FastReader_check_for_multiline_input_max(f, peek) ==
    LET recs == Records(f, 0)
        i == Min(Len(recs), peek)
        line_num == IF i = 0 THEN 0 ELSE recs[i].last
        peeked == IF i >= peek THEN i ELSE peek
    IN line_num # peeked

\* FastReader._check_for_multiline_input: TRUE when it calls ui.fatal.  The
\* loop reads records until the peek-th or the end; line_num is then the
\* number of physical lines those records took.
FastReader_check_for_multiline_input(f, peek) ==
    LET recs == Records(f, 0)
        i == Min(Len(recs), peek)
        line_num == IF i = 0 THEN 0 ELSE recs[i].last
        peeked == Min(i, peek)
    IN line_num # peeked

\* a row of FastReader is a raw line, a row of SlowReader a list of fields
RawRow(line) == [raw |-> line]
ParsedRow(fields) == [fields |-> fields]

\* ui.fatal ends the run: the reader is never handed out
ui_fatal(r) == [r EXCEPT !.state = "fatal"]

\* FastReader.__init__ / SlowReader.__init__
CSVReader_init(f, fast) ==
    IF fast /\ FastReader_check_for_multiline_input(f, peek_size)
    THEN ui_fatal(NoReader)
    ELSE LET h == csv_reader_next(f, 0) IN
         IF h.out = "StopIteration"
         THEN [NoReader EXCEPT !.state = "StopIteration"]
         ELSE [NoReader EXCEPT !.state = "ready",
                               !.fieldnames = fieldnames_of(h.row),
                               !.line_num = h.line_num]

\* FastReader.__iter__ with the header line not skipped
FastReader_iter_noskip(f) == [i \in 1..Len(f) |-> RawRow(WithNL(f[i]))]

\* FastReader.__iter__: the lines of a fresh view of the file after the first
FastReader_iter(f) == [i \in 1..(Len(f) - 1) |-> RawRow(WithNL(f[i + 1]))]

\* SlowReader.__iter__: the records of a fresh csv.reader after the first
SlowReader_iter(f) ==
    LET recs == Records(f, 0) IN
    [i \in 1..(Len(recs) - 1) |-> ParsedRow(recs[i + 1].row)]

InitReader ==
    /\ file \in Files
    /\ fast_mode \in BOOLEAN
    /\ reader = NoReader
    /\ dataset = [header |-> FALSE, rows |-> << >>, tail |-> "EOF"]
    /\ chunksize = 1
    /\ already_processed_batches = {}
    /\ ShovelIdle

\* reader = reader_factory(csvfile, self.encoding, self._ui)
reader_factory ==
    /\ reader.state = "none"
    /\ reader' = CSVReader_init(file, fast_mode)
    /\ UNCHANGED <<inputs, teardown, fast_mode, file, gen, pc, exc, batch, n,
                   shovel_status, abort_flag, queue, progress_queue, pushed,
                   sent, abort_seen_at, abort_set_at, killed_from>>

\* iterating the reader to its end
reader_iter ==
    /\ reader.state = "ready"
    /\ reader' = [reader EXCEPT
                    !.state = "iterated",
                    !.rows = IF fast_mode THEN FastReader_iter(file)
                             ELSE SlowReader_iter(file)]
    /\ UNCHANGED <<inputs, teardown, fast_mode, file, gen, pc, exc, batch, n,
                   shovel_status, abort_flag, queue, progress_queue, pushed,
                   sent, abort_seen_at, abort_set_at, killed_from>>

NextReader == reader_factory \/ reader_iter

SpecReader == InitReader /\ [][NextReader]_vars

\* the records of f (the header is record 1) that span more than one
\* physical line
MultilineAt(f) ==
    LET recs == Records(f, 0) IN
    {k \in 1..Len(recs) :
        recs[k].last - (IF k = 1 THEN 0 ELSE recs[k - 1].last) > 1}

\* every record of f is exactly one physical line
SingleLine(f) == Len(Records(f, 0)) = Len(f) /\ MultilineAt(f) = {}

HasNewline(field) == \E i \in 1..Len(field) : field[i] = NL

\* SlowReader has yielded every multi-line data record as one row that holds
\* the embedded newline inside one field
SlowYieldsMultiline ==
    /\ reader.state \in {"ready", "iterated"}
    /\ reader.state = "iterated" =>
          \A k \in MultilineAt(file) : k >= 2 =>
              /\ k - 1 <= Len(reader.rows)
              /\ \E j \in 1..Len(reader.rows[k - 1].fields) :
                     HasNewline(reader.rows[k - 1].fields[j])

\* C14 as claimed: wherever the multi-line record is, FastReader ends in
\* ui.fatal and SlowReader yields the record as one row.
C14_MultilineAnywhere ==
    (MultilineAt(file) # {} /\ reader.state # "none") =>
        IF fast_mode THEN reader.state = "fatal" ELSE SlowYieldsMultiline

\* C14 amended: when a multi-line record is among the first peek_size records
\* (the header counts as the first), FastReader ends in ui.fatal and yields
\* nothing; SlowReader yields every multi-line data record as one row.
C14_MultilineWithinPeek ==
    (MultilineAt(file) # {} /\ reader.state # "none") =>
        IF fast_mode
        THEN (\E k \in MultilineAt(file) : k <= peek_size) =>
                 (reader.state = "fatal" /\ reader.rows = << >>)
        ELSE SlowYieldsMultiline

\* C14 witness: the first data record spans two lines and fast mode was asked
C14_Witness ==
    /\ fast_mode
    /\ MultilineAt(file) = {2}
    /\ reader.state = "fatal"

\* what the reader of the other mode gives on the same file
OtherReader ==
    LET r == CSVReader_init(file, ~fast_mode) IN
    IF r.state = "ready"
    THEN [r EXCEPT !.state = "iterated",
                   !.rows = IF ~fast_mode THEN FastReader_iter(file)
                            ELSE SlowReader_iter(file)]
    ELSE r

\* C15 as claimed: on a file of one-line records both readers give the same
\* fieldnames and the same rows.
C15_SameRows ==
    (SingleLine(file) /\ reader.state = "iterated") =>
        /\ OtherReader.state = "iterated"
        /\ reader.fieldnames = OtherReader.fieldnames
        /\ reader.rows = OtherReader.rows

\* the fields csv.reader makes of one raw line read on its own
csv_parse_line(raw) ==
    Records(<<SubSeq(raw, 1, Len(raw) - 1)>>, 0)[1].row

\* a FastReader row and a SlowReader row are the same record
SameRecord(x, y) ==
    IF fast_mode THEN csv_parse_line(x.raw) = y.fields
    ELSE csv_parse_line(y.raw) = x.fields

\* C15 amended: on a file of one-line records both readers give the same
\* fieldnames and as many rows in the same order; a FastReader row is the raw
\* line, terminator included, whose parse is the SlowReader row.
C15_SameRecords ==
    (SingleLine(file) /\ reader.state = "iterated") =>
        /\ OtherReader.state = "iterated"
        /\ reader.fieldnames = OtherReader.fieldnames
        /\ Len(reader.rows) = Len(OtherReader.rows)
        /\ \A i \in 1..Len(reader.rows) :
              SameRecord(reader.rows[i], OtherReader.rows[i])

\* C15 witness: FastReader has iterated a file of one-line records with a
\* quoted field and a two-field row
C15_Witness ==
    /\ fast_mode
    /\ SingleLine(file)
    /\ reader.state = "iterated"
    /\ Len(reader.rows) = 2
    /\ reader.rows[1] = RawRow(<<"\"", "a", "\"", NL>>)
    /\ reader.rows[2] = RawRow(<<"a", ",", "b", NL>>)

\* ---- signals, the bounded channel and the abort flag ----------------------
\* the positions of _shove at which the handlers are installed and the
\* process has not left _shove
HandlerPoints ==
    {"iter", "put", "check", "after_loop", "put_done", "except",
     "put_csv_error", "put_error"}

\* exit_fast has run
Signalled == killed_from # ""

\* nothing is pushed, put or written once exit_fast has run
C16_AfterSignal ==
    Signalled =>
        /\ pushed' = pushed
        /\ queue' = queue \/ (queue # << >> /\ queue' = Tail(queue))
        /\ progress_queue' = progress_queue
        /\ sent' = sent
        /\ shovel_status' = decode_reader_state.Aborted
        /\ pc' = "killed"

\* C16: at every position of _shove after the handlers are installed, also
\* after a terminal status write and while blocked on a full data channel, a
\* signal can be taken; once taken the status is Aborted, the process is gone
\* and no Batch is pushed and no event is put any more.
C16_SignalAbortsAndExits ==
    /\ [](pc \in HandlerPoints => ENABLED exit_fast)
    /\ [](Signalled => pc = "killed" /\
                       shovel_status = decode_reader_state.Aborted)
    /\ [][C16_AfterSignal]_vars

\* C16 witness: the signal came while the producer was blocked on the full
\* data channel, and the owner has taken a Batch since without a new push
C16_Witness ==
    /\ killed_from = "put"
    /\ pc = "killed"
    /\ Len(pushed) = QueueCap
    /\ queue = << >>
    /\ shovel_status = decode_reader_state.Aborted

\* the producer is inside queue.put and the data channel is full
BlockedOnPut == pc = "put" /\ Len(queue) >= QueueCap

\* while the push is blocked the producer does nothing but wait (or die on a
\* signal); only the owner changes the channel, by taking its head
C17_WhileBlocked ==
    BlockedOnPut =>
        /\ n' = n
        /\ pushed' = pushed
        /\ abort_seen_at' = abort_seen_at
        /\ pc' \in {"put", "killed"}
        /\ queue' = queue \/ queue' = Tail(queue)

\* C17: the data channel never holds more than QueueCap Batches and always
\* holds the last Batches pushed, in order; while the push is blocked on a full
\* channel nothing is pushed, the count stays, and the abort flag is not read,
\* until the owner takes an item.
C17_BoundedChannelBlocks ==
    /\ [](Len(queue) <= QueueCap /\ IsSuffix(queue, pushed))
    /\ [](BlockedOnPut => ~ENABLED shove_put /\ ~ENABLED shove_check_abort)
    /\ [][C17_WhileBlocked]_vars

\* C17 witness: the producer is blocked on the full channel with the abort
\* flag already set and not yet seen
C17_Witness ==
    /\ BlockedOnPut
    /\ abort_flag
    /\ abort_seen_at = -1
    /\ n = QueueCap
    /\ Len(pushed) = QueueCap

\* C20: at most one push completes after the owner has set the abort flag.
C20_OnePushAfterAbort ==
    abort_flag => Len(pushed) <= abort_set_at + 1

\* C20 witness: the flag was set while a Batch was on its way; that one push
\* completed, the check saw the flag, and the input had more rows to give
C20_Witness ==
    /\ abort_flag
    /\ abort_set_at >= 1
    /\ Len(pushed) = abort_set_at + 1
    /\ abort_seen_at = Len(pushed)
    /\ Finished
    /\ ~Exhausted

\* ---- teardown of the owning scope -----------------------------------------
\* Process.is_alive(): go() has started the process and it has not ended
is_alive == pc \notin {"done", "raised", "killed"}

\* the producer has been started and nothing was processed before
InitStarted ==
    /\ dataset \in Datasets
    /\ chunksize \in 1..MaxChunk
    /\ already_processed_batches = {}
    /\ ShovelIdle
    /\ NoSource

\* __exit__ that leaves the producer alone
Shovel_exit_noterminate ==
    /\ ~torn_down
    /\ torn_down' = TRUE
    /\ UNCHANGED <<inputs, source, sigterm, abort_set_at, killed_from,
                   gen, pc, exc, batch, n, shovel_status, abort_flag, queue,
                   progress_queue, pushed, sent, abort_seen_at>>

\* Shovel.__exit__: if self.p.is_alive(): self.p.terminate()
Shovel_exit ==
    /\ ~torn_down
    /\ torn_down' = TRUE
    /\ sigterm' = IF is_alive THEN "pending" ELSE sigterm
    /\ UNCHANGED <<inputs, source, abort_set_at, killed_from,
                   gen, pc, exc, batch, n, shovel_status, abort_flag, queue,
                   progress_queue, pushed, sent, abort_seen_at>>

\* the SIGTERM of terminate() reaches the producer: exit_fast when the
\* handlers are installed, the default action (the process is killed, the
\* status left as it is) before that
sigterm_delivered ==
    /\ sigterm = "pending"
    /\ is_alive
    /\ sigterm' = "taken"
    /\ pc' = "killed"
    /\ IF pc = "start"
       THEN UNCHANGED <<shovel_status, killed_from>>
       ELSE /\ shovel_status' = decode_reader_state.Aborted
            /\ killed_from' = pc
    /\ UNCHANGED <<inputs, source, torn_down, abort_set_at,
                   gen, exc, batch, n, abort_flag, queue,
                   progress_queue, pushed, sent, abort_seen_at>>

NextTeardown ==
    \/ Next
    \/ Shovel_exit
    \/ sigterm_delivered

\* a signal sent to a live process is delivered; CPython runs the handler
\* also while the main thread waits inside queue.put
SpecTeardown ==
    InitStarted /\ [][NextTeardown]_vars /\ WF_vars(sigterm_delivered)

\* once the scope is torn down and the producer is gone it stays gone and
\* nothing is pushed
C18_AfterTeardown ==
    (torn_down /\ ~is_alive) => (~is_alive' /\ pushed' = pushed)

\* C18: after __exit__ the producer is eventually not running, whatever it was
\* doing when __exit__ ran, and from then on it pushes no Batch.
C18_TeardownStopsProducer ==
    /\ torn_down ~> ~is_alive
    /\ [][C18_AfterTeardown]_vars

\* C18 witness: __exit__ ran while the producer was blocked on the full data
\* channel, and the SIGTERM it sent ended the producer there
C18_Witness ==
    /\ torn_down
    /\ sigterm = "taken"
    /\ killed_from = "put"
    /\ Len(queue) = QueueCap
    /\ shovel_status = decode_reader_state.Aborted

\* ---- termination ----------------------------------------------------------
\* a step of the producer process inside _shove
ProducerStep ==
    \/ shove_start
    \/ shove_next
    \/ shove_put
    \/ shove_check_abort
    \/ shove_status_done
    \/ shove_put_done
    \/ shove_except_csv
    \/ shove_put_csv_error
    \/ shove_except_exception
    \/ shove_put_error

\* no signal is delivered
NextDrain ==
    \/ ProducerStep
    \/ owner_set_abort
    \/ owner_get

\* the producer process keeps running and the owner keeps draining the data
\* channel
SpecDrain ==
    /\ InitStarted
    /\ [][NextDrain]_vars
    /\ WF_vars(ProducerStep)
    /\ WF_vars(owner_get)

\* C19: with the owner draining and no signal the producer eventually leaves
\* _shove with a terminal status; a producer blocked in queue.put on the full
\* channel has no step of its own, abort flag set or not, so it stays blocked
\* for as long as the owner takes nothing.
C19_TerminatesWhenDrained ==
    /\ <>(Finished /\ shovel_status \in Terminal)
    /\ [](BlockedOnPut => ~ENABLED ProducerStep)

\* C19 witness: the owner set the abort flag while the producer is blocked on
\* the full channel, its status still PostingToQueue and rows left to read
C19_Witness ==
    /\ BlockedOnPut
    /\ abort_flag
    /\ shovel_status = decode_reader_state.Posting
    /\ ~Exhausted
    /\ ~Finished

====
